---- MODULE Spec2Model ----
(***************************************************************************)
(* Model of api/face_compare.py: the POST /compare-faces handler            *)
(* (compare_faces) and the image normaliser it calls                        *)
(* (auto_orient_and_strip_jpeg_to_file).                                    *)
(*                                                                          *)
(* Floats are fixed-point integers: an upstream similarity s in [0,1] is    *)
(* the integer k = s * Scale, and a value of the response (0..100, two      *)
(* decimals) is an integer number of hundredths.                            *)
(*                                                                          *)
(* The filesystem is the set fs of existing temporary files.  os.remove of  *)
(* an existing file succeeds (the files are the process's own, in its own   *)
(* temporary directory), except under SpecCleanup, where it may fail.       *)
(***************************************************************************)
EXTENDS Integers, Sequences, FiniteSets, TLC

(***************************************************************************)
(* Bounds of the model.                                                     *)
(***************************************************************************)
\* Number of request slots.  Spec and SpecCleanup run one request; SpecPair
\* and SpecConc run them all.
NumRequests == 2
\* Half-width of the windows of the similarity grid around 0, 0.8 and 1.
GridWindow == 12

Requests == 1..NumRequests

(***************************************************************************)
(* Fixed-point representation.                                              *)
(***************************************************************************)
\* Grid units per 1.0 of similarity: five decimals, three more than the
\* two decimals that round(x * 100, 2) keeps.
Scale == 100000
\* threshold = 0.8 (line 135), in grid units.
Threshold == 80000
\* DEFAULT_DET_PROB_THRESHOLD = 0.8 (line 19), in grid units.
DEFAULT_DET_PROB_THRESHOLD == 80000
\* DEFAULT_LIMIT = 1 (line 17).
DEFAULT_LIMIT == 1

\* The similarities the upstream may report: windows of the grid around
\* 0, the threshold and 1, and a few values in between.
Grid ==
    (0..GridWindow) \cup ((Threshold - GridWindow)..(Threshold + GridWindow))
      \cup ((Scale - GridWindow)..Scale) \cup {50000, 85000, 90000}

\* float(k / Scale) * 100 is a double next to the decimal k / 1000.  When
\* k / 1000 lies halfway between two hundredths (k % 10 = 5) the double lies
\* on one side of the tie and round(., 2) follows it.  These are the ties,
\* within 60 grid units of 0, 0.8 and 1, where CPython's double rounds up.
SimilarityTiesUp ==
    {5, 25, 55, 79965, 79995, 80005, 80015, 80025, 80045, 99965, 99975, 99995}
\* The same for (1.0 - float(k / Scale)) * 100, the tie being at
\* (Scale - k) / 1000.
DistanceTiesUp ==
    {5, 25, 35, 79955, 79965, 79975, 79985, 80045, 80055, 99945}

\* round(x, 2) of the double next to n / 1000, in hundredths; up says which
\* way the double lies at a tie.
Round2(n, up) ==
    IF n % 10 < 5 THEN n \div 10
    ELSE IF n % 10 > 5 THEN (n \div 10) + 1
    ELSE IF up THEN (n \div 10) + 1 ELSE n \div 10

\* round(similarity * 100, 2), line 139.
RoundSimilarity(k) == Round2(k, k \in SimilarityTiesUp)

\* distance = 1.0 - similarity (line 134); round(distance * 100, 2), line 140.
RoundDistance(k) == Round2(Scale - k, k \in DistanceTiesUp)

(***************************************************************************)
(* Requests.                                                                *)
(***************************************************************************)
\* What the request body is: not JSON at all (request.is_json is false), a
\* JSON value that is not an object (null, a list, a number), or an object.
BodyKinds == {"not_json", "non_object", "object"}

\* What an image field holds: no such key, the empty string, a string that
\* is not base64, base64 of bytes that convert rejects, base64 of a JPEG.
ImageKinds == {"missing", "empty", "bad_b64", "bad_jpeg", "ok"}

\* not image: None and "" are falsy (line 79).
FalsyNoneOnly(image) == image = "missing"
Falsy(image) == image \in {"missing", "empty"}

\* The det_prob_threshold and limit a caller may send (grid units for the
\* former); the defaults stand for an omitted key (lines 83, 85).
DetChoices == {50000, DEFAULT_DET_PROB_THRESHOLD, 90000}
LimitChoices == {DEFAULT_LIMIT, 2}

RequestBodies ==
    [kind : BodyKinds, image1 : ImageKinds, image2 : ImageKinds,
     det_prob_threshold : DetChoices, limit : LimitChoices]

\* Requests as a client sends them: only an object has fields.
WellFormed(q) ==
    q.kind # "object" =>
        /\ q.image1 = "missing" /\ q.image2 = "missing"
        /\ q.det_prob_threshold = DEFAULT_DET_PROB_THRESHOLD
        /\ q.limit = DEFAULT_LIMIT

(***************************************************************************)
(* Upstream responses.                                                      *)
(***************************************************************************)
Absent == [has |-> FALSE, list |-> <<>>]
Present(l) == [has |-> TRUE, list |-> l]

NoSimilarity == [tag |-> "none", k |-> 0]
TextSimilarity == [tag |-> "str", k |-> 0]
Similarity(k) == [tag |-> "num", k |-> k]

\* One element of face_matches.
FaceMatch(s) == [similarity |-> s]
\* One element of result.
ResultItem(fm) == [face_matches |-> fm]

\* A response body: text that is no JSON, JSON that is no object, or an
\* object with or without a result list.
InvalidBody == [json |-> "invalid", result |-> Absent]
NonObjectBody == [json |-> "non_object", result |-> Absent]
ObjectBody(res) == [json |-> "object", result |-> res]

MatchBody(s) == ObjectBody(Present(<<ResultItem(Present(<<FaceMatch(s)>>))>>))

MalformedBodies ==
    {NonObjectBody,
     ObjectBody(Absent),
     ObjectBody(Present(<<>>)),
     ObjectBody(Present(<<ResultItem(Absent)>>)),
     ObjectBody(Present(<<ResultItem(Present(<<>>))>>)),
     MatchBody(NoSimilarity),
     MatchBody(TextSimilarity)}

OkBodies == {InvalidBody} \cup MalformedBodies \cup {MatchBody(Similarity(k)) : k \in Grid}

\* Bodies sent with a status other than 200.
FailureBodies == {InvalidBody, ObjectBody(Absent), MatchBody(Similarity(90000))}

UpstreamAnswers ==
    {[status_code |-> 200, text |-> b] : b \in OkBodies}
      \cup {[status_code |-> c, text |-> b] : c \in {400, 500}, b \in FailureBodies}

Unasked == [status_code |-> 0, text |-> InvalidBody]

(***************************************************************************)
(* Responses of the handler.                                                *)
(***************************************************************************)
NoDetails == [kind |-> "none", text |-> InvalidBody, exc |-> ""]
\* resp.text: the upstream body as received.
TextOf(b) == [kind |-> "text", text |-> b, exc |-> ""]
\* str(compreface_result): the parsed body, printed.
StrOf(b) == [kind |-> "str", text |-> b, exc |-> ""]
\* str(e) of the exception e.
StrOfException(e) == [kind |-> "exception", text |-> InvalidBody, exc |-> e]

\* jsonify({"error": ...}), 400: lines 73 and 80 (a body without details).
ErrorOnly(status, summary) ==
    [status |-> status, shape |-> "error_only", error |-> summary,
     details |-> NoDetails, similarity |-> 0, distance |-> 0, match |-> FALSE]

\* jsonify({"error": ..., "details": ...}), status: lines 119, 145 and 167.
Error(status, summary, details) ==
    [status |-> status, shape |-> "error", error |-> summary,
     details |-> details, similarity |-> 0, distance |-> 0, match |-> FALSE]

\* jsonify(response), line 143: the status defaults to 200.
Success(similarity, distance, match) ==
    [status |-> 200, shape |-> "success", error |-> "",
     details |-> NoDetails, similarity |-> similarity, distance |-> distance,
     match |-> match]

\* An exception that leaves compare_faces: the framework answers 500 with a
\* page of its own, not with a body of the handler.
Unhandled(e) ==
    [status |-> 500, shape |-> "unhandled", error |-> e,
     details |-> NoDetails, similarity |-> 0, distance |-> 0, match |-> FALSE]

NoResponse ==
    [status |-> 0, shape |-> "none", error |-> "",
     details |-> NoDetails, similarity |-> 0, distance |-> 0, match |-> FALSE]

VerificationFailed == "Compreface verification failed"
UnexpectedStructureAsFailure == "Compreface verification failed"
UnexpectedStructure == "Unexpected Compreface response structure"
ProcessingError == "Error decoding or processing images"

(***************************************************************************)
(* State.                                                                   *)
(***************************************************************************)
VARIABLES
    pc,                 \* where each request is in compare_faces
    req,                \* the request each slot received
    unique_id,          \* uuid.uuid4().hex of the request (0: not drawn)
    img,                \* the image auto_orient_and_strip_jpeg_to_file works on
    source_name,        \* its local source_name
    fixed_name,         \* its local fixed_name
    source_image_path,  \* compare_faces' source_image_path
    target_image_path,  \* compare_faces' target_image_path
    fs,                 \* the temporary files that exist
    handles,            \* the open file handles
    files,              \* the handles held by compare_faces' files dict
    resp,               \* the upstream response the request got
    exc,                \* the exception in flight ("" when none)
    ret,                \* the value of the return statement being executed
    response,           \* what the client received
    upstream,           \* the answer of the (deterministic) upstream
    trace               \* the external operations of each request, in order

vars ==
    <<pc, req, unique_id, img, source_name, fixed_name, source_image_path,
      target_image_path, fs, handles, files, resp, exc, ret, response,
      upstream, trace>>

\* A temporary file: tempfile names it after the suffix
\* _{source|target}_{unique_id}_{src|fixed}.jpg.
Path(u, i, k) == [uid |-> u, img |-> i, kind |-> k]
\* None.
NoPath == Path(0, "", "")

\* An entry of trace.
Event(op, path) == [op |-> op, path |-> path]

(***************************************************************************)
(* Translation of the upstream result (lines 122-145).                      *)
(***************************************************************************)
\* threshold = 0.8, line 135: the constant of the match decision of
\* request r.
MatchThresholdFromRequest(r) == req[r].det_prob_threshold
MatchThreshold(r) == Threshold

\* is_match = similarity >= threshold, line 136.
IsMatchStrict(r, k) == k > MatchThreshold(r)
IsMatch(r, k) == k >= MatchThreshold(r)

\* The value of similarity at line 138: the first match's similarity, None
\* when face_matches is empty or the first match has none.
FirstSimilarity(item) ==
    LET face_matches ==
            IF item.face_matches.has THEN item.face_matches.list ELSE <<>>
    IN  IF face_matches # <<>> THEN face_matches[1].similarity ELSE NoSimilarity

\* Lines 122-145 on the parsed body b: every exception of the block
\* (AttributeError of .get on a non-object, TypeError of None[0], IndexError
\* of [][0], ValueError of float(), TypeError of None * 100) is caught at
\* line 144.
Translate(r, b) ==
    IF b.json # "object" \/ ~b.result.has \/ b.result.list = <<>>
    THEN Error(500, UnexpectedStructure, StrOf(b))
    ELSE LET similarity == FirstSimilarity(b.result.list[1])
         IN  IF similarity.tag # "num"
             THEN Error(500, UnexpectedStructure, StrOf(b))
             ELSE Success(RoundSimilarity(similarity.k),
                          RoundDistance(similarity.k),
                          IsMatch(r, similarity.k))

(***************************************************************************)
(* Initial states.                                                          *)
(***************************************************************************)
\* Every slot is empty but the started ones, which hold a request that has
\* just reached compare_faces.
InitWith(started, bodies) ==
    /\ \E q \in [started -> {b \in bodies : WellFormed(b)}] :
          req = [r \in Requests |->
                    IF r \in started THEN q[r]
                    ELSE [kind |-> "not_json", image1 |-> "missing",
                          image2 |-> "missing",
                          det_prob_threshold |-> DEFAULT_DET_PROB_THRESHOLD,
                          limit |-> DEFAULT_LIMIT]]
    /\ pc = [r \in Requests |-> IF r \in started THEN "start" ELSE "none"]
    /\ unique_id = [r \in Requests |-> 0]
    /\ img = [r \in Requests |-> ""]
    /\ source_name = [r \in Requests |-> NoPath]
    /\ fixed_name = [r \in Requests |-> NoPath]
    /\ source_image_path = [r \in Requests |-> NoPath]
    /\ target_image_path = [r \in Requests |-> NoPath]
    /\ fs = {}
    /\ handles = {}
    /\ files = [r \in Requests |-> {}]
    /\ resp = [r \in Requests |-> Unasked]
    /\ exc = [r \in Requests |-> ""]
    /\ ret = [r \in Requests |-> NoResponse]
    /\ response = [r \in Requests |-> NoResponse]
    /\ upstream = Unasked
    /\ trace = [r \in Requests |-> <<>>]

\* One request, of any kind.
Init == InitWith({1}, RequestBodies)

(***************************************************************************)
(* compare_faces, lines 71-91: validation.                                  *)
(***************************************************************************)
\* return statement: the client receives v.
Return(r, v) ==
    /\ response' = [response EXCEPT ![r] = v]
    /\ pc' = [pc EXCEPT ![r] = "done"]

\* Lines 72-73: the body is not JSON.
RejectNotJson(r) ==
    /\ pc[r] = "start"
    /\ req[r].kind = "not_json"
    /\ Return(r, ErrorOnly(400, "Content-Type must be application/json"))
    /\ UNCHANGED <<req, unique_id, img, source_name, fixed_name,
                   source_image_path, target_image_path, fs, handles, files,
                   resp, exc, ret, upstream, trace>>

\* Lines 75-76: data is None, a list, a string or a number, and data.get
\* raises AttributeError outside every try block.
RaiseOnNonObject(r) ==
    /\ pc[r] = "start"
    /\ req[r].kind = "non_object"
    /\ Return(r, Unhandled("AttributeError"))
    /\ UNCHANGED <<req, unique_id, img, source_name, fixed_name,
                   source_image_path, target_image_path, fs, handles, files,
                   resp, exc, ret, upstream, trace>>

\* Lines 79-80: an image is missing or empty.
RejectMissingImage(r) ==
    /\ pc[r] = "start"
    /\ req[r].kind = "object"
    /\ Falsy(req[r].image1) \/ Falsy(req[r].image2)
    /\ Return(r, ErrorOnly(400, "Both image1 and image2 fields are required in JSON"))
    /\ UNCHANGED <<req, unique_id, img, source_name, fixed_name,
                   source_image_path, target_image_path, fs, handles, files,
                   resp, exc, ret, upstream, trace>>

\* uuid.uuid4().hex, line 89: the draws of different requests differ; the
\* draw of request r is called r.
Uuid4Constant(r) == 1
Uuid4(r) == r

\* Lines 82-95: both images are there; the handler draws its unique id and
\* calls auto_orient_and_strip_jpeg_to_file(image1, "source_<id>").
Accept(r) ==
    /\ pc[r] = "start"
    /\ req[r].kind = "object"
    /\ ~Falsy(req[r].image1) /\ ~Falsy(req[r].image2)
    /\ unique_id' = [unique_id EXCEPT ![r] = Uuid4(r)]
    /\ img' = [img EXCEPT ![r] = "source"]
    /\ pc' = [pc EXCEPT ![r] = "decode"]
    /\ UNCHANGED <<req, source_name, fixed_name, source_image_path,
                   target_image_path, fs, handles, files, resp, exc, ret,
                   response, upstream, trace>>

(***************************************************************************)
(* auto_orient_and_strip_jpeg_to_file, lines 23-56.                         *)
(***************************************************************************)
\* The image_b64 argument of the call in progress.
Image(r) == IF img[r] = "source" THEN req[r].image1 ELSE req[r].image2

\* Lines 50-55: the files named by the locals that are bound are removed.
CleanedUp(r) == fs \ {source_name[r], fixed_name[r]}

\* The function raises e: the assignment at line 95 or 96 does not happen
\* and control reaches the handler at line 159.
RaiseFromNormalizer(r, e) ==
    /\ exc' = [exc EXCEPT ![r] = e]
    /\ pc' = [pc EXCEPT ![r] = "outer_except"]

\* Line 29: base64.b64decode.  Its failure is caught at line 48, with no
\* local bound yet.
Decode(r) ==
    /\ pc[r] = "decode"
    /\ IF Image(r) = "bad_b64"
       THEN RaiseFromNormalizer(r, "RuntimeError: Image normalization failed")
       ELSE /\ pc' = [pc EXCEPT ![r] = "create_source"]
            /\ exc' = exc
    /\ UNCHANGED <<req, unique_id, img, source_name, fixed_name,
                   source_image_path, target_image_path, fs, handles, files,
                   resp, ret, response, upstream, trace>>

\* Lines 30-33: the source file is created and written.
CreateSource(r) ==
    /\ pc[r] = "create_source"
    /\ LET f == Path(unique_id[r], img[r], "src")
       IN  /\ fs' = fs \cup {f}
           /\ source_name' = [source_name EXCEPT ![r] = f]
           /\ trace' = [trace EXCEPT ![r] = Append(@, Event("create", f))]
    /\ pc' = [pc EXCEPT ![r] = "create_fixed"]
    /\ UNCHANGED <<req, unique_id, img, fixed_name, source_image_path,
                   target_image_path, handles, files, resp, exc, ret,
                   response, upstream>>

\* Line 30 fails (no space, no permission): no file, no local.
CreateSourceFails(r) ==
    /\ pc[r] = "create_source"
    /\ RaiseFromNormalizer(r, "RuntimeError: Image normalization failed")
    /\ UNCHANGED <<req, unique_id, img, source_name, fixed_name,
                   source_image_path, target_image_path, fs, handles, files,
                   resp, ret, response, upstream, trace>>

\* Line 31 or 32 fails after line 30 created the file: source_name is not
\* bound yet (line 33), so the cleanup at lines 50-55 does not see the file.
WriteSourceFails(r) ==
    /\ pc[r] = "create_source"
    /\ LET f == Path(unique_id[r], img[r], "src")
       IN  /\ fs' = fs \cup {f}
           /\ trace' = [trace EXCEPT ![r] = Append(@, Event("create", f))]
    /\ RaiseFromNormalizer(r, "RuntimeError: Image normalization failed")
    /\ UNCHANGED <<req, unique_id, img, source_name, fixed_name,
                   source_image_path, target_image_path, handles, files,
                   resp, ret, response, upstream>>

\* Lines 35-36: the (empty) result file is created.
CreateFixed(r) ==
    /\ pc[r] = "create_fixed"
    /\ LET f == Path(unique_id[r], img[r], "fixed")
       IN  /\ fs' = fs \cup {f}
           /\ fixed_name' = [fixed_name EXCEPT ![r] = f]
           /\ trace' = [trace EXCEPT ![r] = Append(@, Event("create", f))]
    /\ pc' = [pc EXCEPT ![r] = "convert"]
    /\ UNCHANGED <<req, unique_id, img, source_name, source_image_path,
                   target_image_path, handles, files, resp, exc, ret,
                   response, upstream>>

\* Line 35 fails: caught at line 48, which removes the source file.
CreateFixedFails(r) ==
    /\ pc[r] = "create_fixed"
    /\ fs' = CleanedUp(r)
    /\ trace' = [trace EXCEPT ![r] = Append(@, Event("remove", source_name[r]))]
    /\ RaiseFromNormalizer(r, "RuntimeError: Image normalization failed")
    /\ UNCHANGED <<req, unique_id, img, source_name, fixed_name,
                   source_image_path, target_image_path, handles, files,
                   resp, ret, response, upstream>>

\* Lines 38-43: convert exits 0.
Convert(r) ==
    /\ pc[r] = "convert"
    /\ Image(r) = "ok"
    /\ trace' = [trace EXCEPT ![r] = Append(@, Event("convert", source_name[r]))]
    /\ pc' = [pc EXCEPT ![r] = "remove_source"]
    /\ UNCHANGED <<req, unique_id, img, source_name, fixed_name,
                   source_image_path, target_image_path, fs, handles, files,
                   resp, exc, ret, response, upstream>>

\* Lines 38-43: convert exits non-zero (not an image, or a failure of the
\* tool); check=True raises CalledProcessError, caught at line 46, whose
\* handler raises RuntimeError and removes nothing.
ConvertExitsNonZero(r) ==
    /\ pc[r] = "convert"
    /\ trace' = [trace EXCEPT ![r] = Append(@, Event("convert", source_name[r]))]
    /\ RaiseFromNormalizer(r, "RuntimeError: ImageMagick conversion failed")
    /\ UNCHANGED <<req, unique_id, img, source_name, fixed_name,
                   source_image_path, target_image_path, fs, handles, files,
                   resp, ret, response, upstream>>

\* Lines 38-43: convert cannot be started (FileNotFoundError, another
\* OSError); caught at line 48, which removes both files.
ConvertCannotRun(r) ==
    /\ pc[r] = "convert"
    /\ fs' = CleanedUp(r)
    /\ trace' = [trace EXCEPT ![r] =
                    @ \o <<Event("convert", source_name[r]),
                           Event("remove", source_name[r]),
                           Event("remove", fixed_name[r])>>]
    /\ RaiseFromNormalizer(r, "RuntimeError: Image normalization failed")
    /\ UNCHANGED <<req, unique_id, img, source_name, fixed_name,
                   source_image_path, target_image_path, handles, files,
                   resp, ret, response, upstream>>

\* return fixed_name, line 45.
NormalizerResultSource(r) == source_name[r]
NormalizerResult(r) == fixed_name[r]

\* Lines 44-45, then line 95 or 96: the source file is removed, the path of
\* the result is returned and assigned; after image1 comes the call for
\* image2, after image2 line 98.
RemoveSource(r) ==
    /\ pc[r] = "remove_source"
    /\ fs' = fs \ {source_name[r]}
    /\ trace' = [trace EXCEPT ![r] = Append(@, Event("remove", source_name[r]))]
    /\ IF img[r] = "source"
       THEN /\ source_image_path' = [source_image_path EXCEPT ![r] = NormalizerResult(r)]
            /\ target_image_path' = target_image_path
            /\ img' = [img EXCEPT ![r] = "target"]
            /\ pc' = [pc EXCEPT ![r] = "decode"]
       ELSE /\ target_image_path' = [target_image_path EXCEPT ![r] = NormalizerResult(r)]
            /\ source_image_path' = source_image_path
            /\ img' = [img EXCEPT ![r] = ""]
            /\ pc' = [pc EXCEPT ![r] = "open_source"]
    /\ source_name' = [source_name EXCEPT ![r] = NoPath]
    /\ fixed_name' = [fixed_name EXCEPT ![r] = NoPath]
    /\ UNCHANGED <<req, unique_id, handles, files, resp, exc, ret, response,
                   upstream>>

(***************************************************************************)
(* compare_faces, lines 98-167: verification, translation, cleanup.         *)
(***************************************************************************)
\* Line 99: open(source_image_path, 'rb').
OpenSource(r) ==
    /\ pc[r] = "open_source"
    /\ handles' = handles \cup {source_image_path[r]}
    /\ trace' = [trace EXCEPT ![r] = Append(@, Event("open", source_image_path[r]))]
    /\ pc' = [pc EXCEPT ![r] = "open_target"]
    /\ UNCHANGED <<req, unique_id, img, source_name, fixed_name,
                   source_image_path, target_image_path, fs, files, resp,
                   exc, ret, response, upstream>>

\* Line 99 raises OSError: the statement is outside the inner try, so
\* control reaches line 159.
OpenSourceFails(r) ==
    /\ pc[r] = "open_source"
    /\ exc' = [exc EXCEPT ![r] = "OSError"]
    /\ pc' = [pc EXCEPT ![r] = "outer_except"]
    /\ UNCHANGED <<req, unique_id, img, source_name, fixed_name,
                   source_image_path, target_image_path, fs, handles, files,
                   resp, ret, response, upstream, trace>>

\* Line 100: open(target_image_path, 'rb'); then files is bound (line 98)
\* and the inner try is entered.
OpenTarget(r) ==
    /\ pc[r] = "open_target"
    /\ handles' = handles \cup {target_image_path[r]}
    /\ files' = [files EXCEPT ![r] = {source_image_path[r], target_image_path[r]}]
    /\ trace' = [trace EXCEPT ![r] = Append(@, Event("open", target_image_path[r]))]
    /\ pc' = [pc EXCEPT ![r] = "post"]
    /\ UNCHANGED <<req, unique_id, img, source_name, fixed_name,
                   source_image_path, target_image_path, fs, resp, exc, ret,
                   response, upstream>>

\* Line 100 raises OSError: files is never bound, the handle of line 99
\* stays open, and control reaches line 159.
OpenTargetFails(r) ==
    /\ pc[r] = "open_target"
    /\ exc' = [exc EXCEPT ![r] = "OSError"]
    /\ pc' = [pc EXCEPT ![r] = "outer_except"]
    /\ UNCHANGED <<req, unique_id, img, source_name, fixed_name,
                   source_image_path, target_image_path, fs, handles, files,
                   resp, ret, response, upstream, trace>>

\* The file object of line 99 is unreachable once line 100 has raised, and
\* no statement of the handler closes it.  The finaliser of the runtime
\* closes it when the object is collected: at once where objects are
\* reference-counted (CPython), later or never elsewhere; the language does
\* not say when.
FinalizeHandle(r) ==
    /\ pc[r] \in {"outer_except", "done"}
    /\ source_image_path[r] \in handles \ files[r]
    /\ handles' = handles \ {source_image_path[r]}
    /\ UNCHANGED <<pc, req, unique_id, img, source_name, fixed_name,
                   source_image_path, target_image_path, fs, files, resp,
                   exc, ret, response, upstream, trace>>

\* Line 119: the body returned for an upstream status other than 200.
VerificationFailureWithoutBody(a) == Error(500, VerificationFailed, NoDetails)
VerificationFailure(a) == Error(500, VerificationFailed, TextOf(a.text))

\* Lines 117-119: the POST is answered.  The upstream is deterministic: it
\* gives the answer it gave before, or, asked for the first time, one of
\* answers.  A status other than 200 is returned as a 500, through the
\* finally block.
PostWithIgnoringStatus(r, answers) ==
    /\ pc[r] = "post"
    /\ \E a \in (IF upstream = Unasked THEN answers ELSE {upstream}) :
          /\ upstream' = a
          /\ resp' = [resp EXCEPT ![r] = a]
    /\ pc' = [pc EXCEPT ![r] = "json"]
    /\ trace' = [trace EXCEPT ![r] = Append(@, Event("post", NoPath))]
    /\ UNCHANGED <<req, unique_id, img, source_name, fixed_name,
                   source_image_path, target_image_path, fs, handles, files,
                   exc, ret, response>>
PostWith(r, answers) ==
    /\ pc[r] = "post"
    /\ \E a \in (IF upstream = Unasked THEN answers ELSE {upstream}) :
          /\ upstream' = a
          /\ resp' = [resp EXCEPT ![r] = a]
          /\ IF a.status_code # 200
             THEN /\ ret' = [ret EXCEPT ![r] = VerificationFailure(a)]
                  /\ pc' = [pc EXCEPT ![r] = "finally_close"]
             ELSE /\ ret' = ret
                  /\ pc' = [pc EXCEPT ![r] = "json"]
    /\ trace' = [trace EXCEPT ![r] = Append(@, Event("post", NoPath))]
    /\ UNCHANGED <<req, unique_id, img, source_name, fixed_name,
                   source_image_path, target_image_path, fs, handles, files,
                   exc, response>>

Post(r) == PostWith(r, UpstreamAnswers)

\* Line 117 raises (connection refused, timeout of the transport): the
\* finally block runs with the exception in flight.
PostRaisesAndRetries(r) ==
    /\ pc[r] = "post"
    /\ Len(trace[r]) < 16
    /\ trace' = [trace EXCEPT ![r] = Append(@, Event("post", NoPath))]
    /\ UNCHANGED <<pc, req, unique_id, img, source_name, fixed_name,
                   source_image_path, target_image_path, fs, handles, files,
                   resp, exc, ret, response, upstream>>
PostRaises(r) ==
    /\ pc[r] = "post"
    /\ exc' = [exc EXCEPT ![r] = "ConnectionError"]
    /\ pc' = [pc EXCEPT ![r] = "finally_close"]
    /\ trace' = [trace EXCEPT ![r] = Append(@, Event("post", NoPath))]
    /\ UNCHANGED <<req, unique_id, img, source_name, fixed_name,
                   source_image_path, target_image_path, fs, handles, files,
                   resp, ret, response, upstream>>

\* Line 121: resp.json().  It raises on a body that is no JSON, outside the
\* try of line 122: the finally block runs with the exception in flight.
ParseJson(r) ==
    /\ pc[r] = "json"
    /\ IF resp[r].text.json = "invalid"
       THEN /\ exc' = [exc EXCEPT ![r] = "JSONDecodeError"]
            /\ pc' = [pc EXCEPT ![r] = "finally_close"]
       ELSE /\ exc' = exc
            /\ pc' = [pc EXCEPT ![r] = "translate"]
    /\ UNCHANGED <<req, unique_id, img, source_name, fixed_name,
                   source_image_path, target_image_path, fs, handles, files,
                   resp, ret, response, upstream, trace>>

\* Lines 122-145: the translation, which returns in every case.
TranslateResult(r) ==
    /\ pc[r] = "translate"
    /\ ret' = [ret EXCEPT ![r] = Translate(r, resp[r].text)]
    /\ trace' = [trace EXCEPT ![r] = Append(@, Event("translate", NoPath))]
    /\ pc' = [pc EXCEPT ![r] = "finally_close"]
    /\ UNCHANGED <<req, unique_id, img, source_name, fixed_name,
                   source_image_path, target_image_path, fs, handles, files,
                   resp, exc, response, upstream>>

\* The events of op on those of paths that are in keep, in order.
Events(op, paths, keep) ==
    LET kept == SelectSeq(paths, LAMBDA f : f \in keep)
    IN  [i \in 1..Len(kept) |-> Event(op, kept[i])]

\* source_image_path and target_image_path, in the order of lines 153, 161.
BothPaths(r) == <<source_image_path[r], target_image_path[r]>>

\* Lines 148-152: every handle of files is closed.
FinallyClose(r) ==
    /\ pc[r] = "finally_close"
    /\ handles' = handles \ files[r]
    /\ trace' = [trace EXCEPT ![r] =
                    @ \o Events("close", BothPaths(r), files[r])]
    /\ pc' = [pc EXCEPT ![r] = "finally_remove"]
    /\ UNCHANGED <<req, unique_id, img, source_name, fixed_name,
                   source_image_path, target_image_path, fs, files, resp,
                   exc, ret, response, upstream>>

\* The paths the loop of lines 153-158 goes through.
FinallyPathsSourceOnly(r) == <<source_image_path[r]>>
FinallyPaths(r) == BothPaths(r)

\* The set of the elements of the sequence s.
Range(s) == {s[i] : i \in 1..Len(s)}

\* Lines 153-158: the paths that exist are removed.  Then the return in
\* progress completes, or the exception in flight reaches line 159.
FinallyRemove(r) ==
    /\ pc[r] = "finally_remove"
    /\ fs' = fs \ Range(FinallyPaths(r))
    /\ trace' = [trace EXCEPT ![r] =
                    @ \o Events("remove", FinallyPaths(r), fs)]
    /\ IF exc[r] # ""
       THEN /\ pc' = [pc EXCEPT ![r] = "outer_except"]
            /\ response' = response
       ELSE Return(r, ret[r])
    /\ UNCHANGED <<req, unique_id, img, source_name, fixed_name,
                   source_image_path, target_image_path, handles, files,
                   resp, exc, ret, upstream>>

\* The status of line 167.
ProcessingErrorStatus == 400

\* Lines 159-167: the paths that are set and exist are removed, and the
\* exception is answered with a 400.
OuterExceptUnguarded(r) ==
    /\ pc[r] = "outer_except"
    /\ fs' = fs \ Range(BothPaths(r))
    /\ trace' = [trace EXCEPT ![r] =
                    @ \o Events("remove", BothPaths(r), {f \in Range(BothPaths(r)) : f # NoPath})]
    /\ Return(r, IF \A f \in Range(BothPaths(r)) : f = NoPath \/ f \in fs
                 THEN Error(ProcessingErrorStatus, ProcessingError, StrOfException(exc[r]))
                 ELSE Unhandled("FileNotFoundError"))
    /\ UNCHANGED <<req, unique_id, img, source_name, fixed_name,
                   source_image_path, target_image_path, handles, files,
                   resp, exc, ret, upstream>>
OuterExcept(r) ==
    /\ pc[r] = "outer_except"
    /\ fs' = fs \ Range(BothPaths(r))
    /\ trace' = [trace EXCEPT ![r] =
                    @ \o Events("remove", BothPaths(r), fs)]
    /\ Return(r, Error(ProcessingErrorStatus, ProcessingError, StrOfException(exc[r])))
    /\ UNCHANGED <<req, unique_id, img, source_name, fixed_name,
                   source_image_path, target_image_path, handles, files,
                   resp, exc, ret, upstream>>

(***************************************************************************)
(* Deletions that fail.                                                     *)
(***************************************************************************)
\* Lines 153-158 when os.remove raises for the files of kept (a file held by
\* another process, a directory made read-only): the exception is swallowed
\* at line 157, the files stay, and the block ends as it does otherwise.
FinallyRemoveFails(r) ==
    /\ pc[r] = "finally_remove"
    /\ \E kept \in SUBSET (Range(FinallyPaths(r)) \cap fs) :
          /\ kept # {}
          /\ fs' = fs \ (Range(FinallyPaths(r)) \ kept)
          /\ trace' = [trace EXCEPT ![r] =
                          @ \o Events("remove", FinallyPaths(r), fs \ kept)]
    /\ IF exc[r] # ""
       THEN /\ pc' = [pc EXCEPT ![r] = "outer_except"]
            /\ response' = response
       ELSE Return(r, ret[r])
    /\ UNCHANGED <<req, unique_id, img, source_name, fixed_name,
                   source_image_path, target_image_path, handles, files,
                   resp, exc, ret, upstream>>

\* Lines 161-166 when os.remove raises for the files of kept: swallowed at
\* line 165; line 167 returns as it does otherwise.
OuterExceptRemoveFails(r) ==
    /\ pc[r] = "outer_except"
    /\ \E kept \in SUBSET (Range(BothPaths(r)) \cap fs) :
          /\ kept # {}
          /\ fs' = fs \ (Range(BothPaths(r)) \ kept)
          /\ trace' = [trace EXCEPT ![r] =
                          @ \o Events("remove", BothPaths(r), fs \ kept)]
    /\ Return(r, Error(ProcessingErrorStatus, ProcessingError, StrOfException(exc[r])))
    /\ UNCHANGED <<req, unique_id, img, source_name, fixed_name,
                   source_image_path, target_image_path, handles, files,
                   resp, exc, ret, upstream>>

(***************************************************************************)
(* Specification of one request.                                            *)
(***************************************************************************)
Next ==
    \E r \in Requests :
        \/ RejectNotJson(r)
        \/ RaiseOnNonObject(r)
        \/ RejectMissingImage(r)
        \/ Accept(r)
        \/ Decode(r)
        \/ CreateSource(r)
        \/ CreateSourceFails(r)
        \/ WriteSourceFails(r)
        \/ CreateFixed(r)
        \/ CreateFixedFails(r)
        \/ Convert(r)
        \/ ConvertExitsNonZero(r)
        \/ ConvertCannotRun(r)
        \/ RemoveSource(r)
        \/ OpenSource(r)
        \/ OpenSourceFails(r)
        \/ OpenTarget(r)
        \/ OpenTargetFails(r)
        \/ FinalizeHandle(r)
        \/ Post(r)
        \/ PostRaises(r)
        \/ ParseJson(r)
        \/ TranslateResult(r)
        \/ FinallyClose(r)
        \/ FinallyRemove(r)
        \/ OuterExcept(r)

Spec == Init /\ [][Next]_vars

(***************************************************************************)
(* Specification of one request on a filesystem that may refuse to delete.  *)
(***************************************************************************)
NextCleanup ==
    \/ Next
    \/ \E r \in Requests :
          \/ FinallyRemoveFails(r)
          \/ OuterExceptRemoveFails(r)

SpecCleanup == Init /\ [][NextCleanup]_vars

(***************************************************************************)
(* Specification of concurrent requests that pass every stage: the same     *)
(* two images, sent with different parameters, normalised without failure   *)
(* and answered by the upstream with a 200 and a similarity.                *)
(***************************************************************************)
PairBodies ==
    {q \in [kind : {"object"}, image1 : {"ok"}, image2 : {"ok"},
            det_prob_threshold : DetChoices, limit : LimitChoices] :
        q.det_prob_threshold = DEFAULT_DET_PROB_THRESHOLD \/ q.limit = DEFAULT_LIMIT}

PairAnswers ==
    {[status_code |-> 200, text |-> MatchBody(Similarity(k))] :
        k \in {79995, Threshold, 85000}}

InitPair == InitWith(Requests, PairBodies)

PostPair(r) == PostWith(r, PairAnswers)

NextPair ==
    \E r \in Requests :
        \/ Accept(r)
        \/ Decode(r)
        \/ CreateSource(r)
        \/ CreateFixed(r)
        \/ Convert(r)
        \/ RemoveSource(r)
        \/ OpenSource(r)
        \/ OpenTarget(r)
        \/ PostPair(r)
        \/ ParseJson(r)
        \/ TranslateResult(r)
        \/ FinallyClose(r)
        \/ FinallyRemove(r)

SpecPair == InitPair /\ [][NextPair]_vars

(***************************************************************************)
(* Specification of concurrent requests with failures: every request sends  *)
(* two good images; creating a file, running convert, opening a file and    *)
(* the POST may fail for each of them, in any interleaving.                 *)
(***************************************************************************)
ConcBodies ==
    [kind : {"object"}, image1 : {"ok"}, image2 : {"ok"},
     det_prob_threshold : {DEFAULT_DET_PROB_THRESHOLD}, limit : {DEFAULT_LIMIT}]

ConcAnswers ==
    {[status_code |-> 200, text |-> MatchBody(Similarity(90000))],
     [status_code |-> 500, text |-> InvalidBody]}

InitConc == InitWith(Requests, ConcBodies)

PostConc(r) == PostWith(r, ConcAnswers)

NextConc ==
    \E r \in Requests :
        \/ Accept(r)
        \/ Decode(r)
        \/ CreateSource(r)
        \/ CreateSourceFails(r)
        \/ WriteSourceFails(r)
        \/ CreateFixed(r)
        \/ CreateFixedFails(r)
        \/ Convert(r)
        \/ ConvertExitsNonZero(r)
        \/ ConvertCannotRun(r)
        \/ RemoveSource(r)
        \/ OpenSource(r)
        \/ OpenSourceFails(r)
        \/ OpenTarget(r)
        \/ OpenTargetFails(r)
        \/ FinalizeHandle(r)
        \/ PostConc(r)
        \/ PostRaises(r)
        \/ ParseJson(r)
        \/ TranslateResult(r)
        \/ FinallyClose(r)
        \/ FinallyRemove(r)
        \/ OuterExcept(r)

SpecConc == InitConc /\ [][NextConc]_vars

(***************************************************************************)
(* Vocabulary of the properties.                                            *)
(***************************************************************************)
\* The handler has returned (or an exception has left it).
Returned(r) == pc[r] = "done"

\* The operations of request r recorded in trace, by kind.
Ops(r, op) == {i \in 1..Len(trace[r]) : trace[r][i].op = op}

\* The temporary files request r has created so far.
Created(r) == {trace[r][i].path : i \in Ops(r, "create")}

\* The exception in flight was raised by the normaliser.
NormalizationFailed(r) ==
    exc[r] \in {"RuntimeError: Image normalization failed",
                "RuntimeError: ImageMagick conversion failed"}

\* Both calls of the normaliser have returned.
BothNormalized(r) ==
    source_image_path[r] # NoPath /\ target_image_path[r] # NoPath

\* The upstream answered, with a status other than 200.
UpstreamNon200(r) == resp[r] # Unasked /\ resp[r].status_code # 200

\* The upstream answered 200 with the body b.
Upstream200(r) == resp[r] # Unasked /\ resp[r].status_code = 200

\* The similarity k of the first face match of the body request r got.
UpstreamSimilarity(r) ==
    resp[r].text.result.list[1].face_matches.list[1].similarity.k

\* |x|.
Abs(x) == IF x < 0 THEN -x ELSE x

(***************************************************************************)
(* Properties.                                                              *)
(***************************************************************************)
\* C1: when normalisation of image1 or of image2 fails (bad base64, convert
\* exiting non-zero, convert missing, an I/O failure), the handler returns
\* 400 and none of the temporary files it created exists any more.
C1_NormalizationFailureLeavesNoFile ==
    \A r \in Requests :
        Returned(r) /\ NormalizationFailed(r) =>
            /\ response[r].status = 400
            /\ Created(r) \cap fs = {}

\* C2: once both normalisations have succeeded, both normalised files are
\* gone when the handler returns, whatever happened in between (success, a
\* status other than 200, an exception of the POST, a body that cannot be
\* parsed or translated, a failure to open the files).
C2_NormalizedFilesDeleted ==
    \A r \in Requests :
        Returned(r) /\ BothNormalized(r) =>
            /\ source_image_path[r] \notin fs
            /\ target_image_path[r] \notin fs
            /\ Created(r) \cap fs = {}

\* C2 happens: the POST raised after both normalisations, and the handler
\* returned with both files removed.
C2_Witness ==
    \E r \in Requests :
        /\ Returned(r) /\ BothNormalized(r)
        /\ exc[r] = "ConnectionError"
        /\ Cardinality(Created(r)) = 4
        /\ fs = {}

\* C3: a JSON request in which image1 or image2 is missing or empty is
\* answered 400, and the handler has then run no external operation: no
\* convert, no POST, no temporary file created.
C3_MissingImageRejectedEarly ==
    \A r \in Requests :
        /\ Returned(r)
        /\ req[r].kind = "object"
        /\ req[r].image1 \in {"missing", "empty"} \/ req[r].image2 \in {"missing", "empty"}
        => /\ response[r].status = 400
           /\ response[r].shape = "error_only"
           /\ trace[r] = <<>>
           /\ resp[r] = Unasked
           /\ fs = {}

\* C3 happens: image1 is a good image, image2 is the empty string.
C3_Witness ==
    \E r \in Requests :
        /\ Returned(r)
        /\ req[r].kind = "object"
        /\ req[r].image1 = "ok" /\ req[r].image2 = "empty"
        /\ response[r].status = 400

\* C4: every failure of the verification or of the translation stage (the
\* POST was issued and the request did not succeed) is answered 500.
C4_VerificationFailureIs500 ==
    \A r \in Requests :
        Returned(r) /\ Ops(r, "post") # {} /\ response[r].shape # "success" =>
            response[r].status = 500

\* C5: an upstream status other than 200 is answered 500 with the upstream
\* body verbatim in details, without translation, and with no temporary
\* file left.
C5_Non200Relayed ==
    \A r \in Requests :
        Returned(r) /\ UpstreamNon200(r) =>
            /\ response[r].status = 500
            /\ response[r].shape = "error"
            /\ response[r].details = TextOf(resp[r].text)
            /\ Ops(r, "translate") = {}
            /\ Created(r) \cap fs = {}

\* C5 happens: the upstream answered 500 with a body that would translate.
C5_Witness ==
    \E r \in Requests :
        /\ Returned(r)
        /\ resp[r] = [status_code |-> 500, text |-> MatchBody(Similarity(90000))]
        /\ response[r].status = 500

\* C6: whatever the request, the client receives a JSON body of the handler,
\* the success shape or the error shape (details may be absent), with
\* status 200, 400 or 500; no exception leaves the handler.
C6_AlwaysStructuredResponse ==
    \A r \in Requests :
        Returned(r) =>
            /\ response[r].shape \in {"success", "error", "error_only"}
            /\ response[r].status \in {200, 400, 500}
            /\ response[r].shape = "success" <=> response[r].status = 200

\* C7 as stated: in a successful response similarity + distance is 100 to
\* within 0.01 and match is true exactly when the returned similarity,
\* divided by 100, is at least 0.8.
C7_MatchFollowsReturnedSimilarity ==
    \A r \in Requests :
        Returned(r) /\ response[r].shape = "success" =>
            /\ Abs(response[r].similarity + response[r].distance - 10000) <= 1
            /\ response[r].match <=> response[r].similarity >= 8000

\* C7 as amended: in a successful response similarity + distance is 100 to
\* within 0.01, the returned similarity is the upstream similarity times
\* 100 to within 0.005, and match is true exactly when the upstream
\* similarity, before rounding, is at least 0.8; so match implies a returned
\* similarity of at least 80.00 and a returned similarity above 80.00
\* implies match.
C7_MatchFollowsUpstreamSimilarity ==
    \A r \in Requests :
        Returned(r) /\ response[r].shape = "success" =>
            /\ Abs(response[r].similarity + response[r].distance - 10000) <= 1
            /\ Abs(10 * response[r].similarity - UpstreamSimilarity(r)) <= 5
            /\ response[r].match <=> UpstreamSimilarity(r) >= Threshold
            /\ response[r].match => response[r].similarity >= 8000
            /\ response[r].similarity > 8000 => response[r].match

\* C7 happens: the upstream similarity 0.79996 is returned as 80.0 with
\* match false, and the sum is 100.
C7_Witness ==
    \E r \in Requests :
        /\ Returned(r) /\ response[r].shape = "success"
        /\ UpstreamSimilarity(r) = 79996
        /\ response[r].similarity = 8000
        /\ response[r].distance = 2000
        /\ ~response[r].match

\* C8: a 200 whose first result has an empty face_matches list is answered
\* with a no-match result (match false, similarity and distance null), not
\* with an error.
C8_EmptyFaceMatchesIsNoMatch ==
    \A r \in Requests :
        /\ Returned(r)
        /\ Upstream200(r)
        /\ resp[r].text = ObjectBody(Present(<<ResultItem(Present(<<>>))>>))
        => /\ response[r].shape \notin {"error", "error_only", "unhandled"}
           /\ response[r].status = 200
           /\ ~response[r].match

\* C9: a 200 whose body has no result field or an empty result list is
\* answered 500 with the summary of an unexpected structure; a status other
\* than 200 is answered with the summary of a failed verification; the two
\* summaries differ and neither is used for the other case.
C9_DistinctErrorSummaries ==
    /\ UnexpectedStructure # VerificationFailed
    /\ \A r \in Requests :
          Returned(r) =>
              /\ /\ Upstream200(r)
                 /\ resp[r].text \in {ObjectBody(Absent), ObjectBody(Present(<<>>))}
                 => /\ response[r].status = 500
                    /\ response[r].error = UnexpectedStructure
              /\ UpstreamNon200(r) => response[r].error = VerificationFailed
              /\ response[r].error = UnexpectedStructure => Upstream200(r)
              /\ response[r].error = VerificationFailed => UpstreamNon200(r)

\* C9 happens: a 200 with an empty result list was answered 500.
C9_Witness ==
    \E r \in Requests :
        /\ Returned(r)
        /\ Upstream200(r)
        /\ resp[r].text = ObjectBody(Present(<<>>))
        /\ response[r].status = 500
        /\ response[r].error = UnexpectedStructure

\* C10: requests that differ only in det_prob_threshold and get the same
\* upstream response return the same similarity, distance and match, and
\* match is decided against 0.8, not against det_prob_threshold.
C10_MatchIgnoresDetProbThreshold ==
    \A r1, r2 \in Requests :
        /\ Returned(r1) /\ Returned(r2)
        /\ resp[r1] = resp[r2]
        => /\ response[r1].similarity = response[r2].similarity
           /\ response[r1].distance = response[r2].distance
           /\ response[r1].match = response[r2].match
           /\ response[r1].match <=> UpstreamSimilarity(r1) >= Threshold

\* C10 happens: two requests, one with det_prob_threshold 0.8 and one with
\* 0.9, both got the similarity 0.85 and both returned match true.
C10_Witness ==
    \E r1, r2 \in Requests :
        /\ Returned(r1) /\ Returned(r2)
        /\ req[r1].det_prob_threshold = 80000
        /\ req[r2].det_prob_threshold = 90000
        /\ UpstreamSimilarity(r1) = 85000 /\ UpstreamSimilarity(r2) = 85000
        /\ response[r1].match /\ response[r2].match

\* The calls of convert request r made for image i (source or target).
Converts(r, i) == {j \in Ops(r, "convert") : trace[r][j].path.img = i}

\* C11: no retries.  A request issues the upstream POST at most once and
\* runs convert at most once per image, whatever the outcome of the call.
C11_NoRetries ==
    \A r \in Requests :
        /\ Cardinality(Ops(r, "post")) <= 1
        /\ Cardinality(Converts(r, "source")) <= 1
        /\ Cardinality(Converts(r, "target")) <= 1
        /\ Returned(r) /\ (UpstreamNon200(r) \/ exc[r] = "ConnectionError")
           => Cardinality(Ops(r, "post")) = 1

\* C11 happens: the POST raised, and the request returned after that one
\* POST and one convert per image.
C11_Witness ==
    \E r \in Requests :
        /\ Returned(r)
        /\ exc[r] = "ConnectionError"
        /\ Cardinality(Ops(r, "post")) = 1
        /\ Cardinality(Converts(r, "source")) = 1
        /\ Cardinality(Converts(r, "target")) = 1

\* The stage an entry of trace belongs to: a call of convert is the
\* normalisation of its image.
StageOf(e) ==
    IF e.op = "convert" THEN <<"normalize", e.path.img>> ELSE <<e.op, "">>

\* The stages request r has entered, in the order it entered them.
Stages(r) ==
    LET staged == SelectSeq(trace[r],
                            LAMBDA e : e.op \in {"convert", "post", "translate"})
    IN  [i \in 1..Len(staged) |-> StageOf(staged[i])]

\* normalize(image1), normalize(image2), verify, translate.
StageOrder ==
    << <<"normalize", "source">>, <<"normalize", "target">>,
       <<"post", "">>, <<"translate", "">> >>

\* s is an initial part of t.
IsPrefix(s, t) == Len(s) <= Len(t) /\ \A i \in 1..Len(s) : s[i] = t[i]

\* C12: the stages of a request run in the order normalize(image1),
\* normalize(image2), verify, translate, each one after the one before it
\* succeeded: image2 is not touched before image1 is normalised, the POST is
\* not issued before both are, the translation not before a 200 whose body
\* parsed, and no stage follows a failed one.
C12_StagesInOrder ==
    \A r \in Requests :
        /\ IsPrefix(Stages(r), StageOrder)
        /\ img[r] = "target" \/ Converts(r, "target") # {}
           => source_image_path[r] # NoPath
        /\ Ops(r, "post") # {} => BothNormalized(r)
        /\ Ops(r, "translate") # {}
           => Upstream200(r) /\ resp[r].text.json # "invalid"
        /\ NormalizationFailed(r) => Ops(r, "post") = {}
        /\ exc[r] # "" \/ UpstreamNon200(r) => Ops(r, "translate") = {}

\* C12 happens: a request went through the four stages, in order, and
\* returned a result.
C12_Witness ==
    \E r \in Requests :
        /\ Returned(r)
        /\ Stages(r) = StageOrder
        /\ response[r].shape = "success"

\* The files request r has opened for the upload.
Opened(r) == {trace[r][i].path : i \in Ops(r, "open")}

\* C13: every handle the handler opened for the upload is closed when it
\* returns, on every path (also when the second open fails after the first
\* succeeded), and no file is removed by the handler before its handle was
\* closed.
C13_HandlesClosedOnReturn ==
    \A r \in Requests :
        /\ Returned(r) => Opened(r) \cap handles = {}
        /\ \A j \in Ops(r, "remove") :
              trace[r][j].path \in Opened(r) =>
                  \E i \in Ops(r, "close") :
                      i < j /\ trace[r][i].path = trace[r][j].path

\* The path the normaliser returned for image i of request r (NoPath when
\* it has not returned).
NormalizedPath(r, i) ==
    IF i = "source" THEN source_image_path[r] ELSE target_image_path[r]

\* The temporary files of image i of request r that exist.
LiveFiles(r, i) == {f \in fs : f.uid = unique_id[r] /\ f.img = i}

\* Request r has removed the file f.
CleanedByHandler(r, f) == \E j \in Ops(r, "remove") : trace[r][j].path = f

\* C14: from the successful return of the normaliser until the cleanup of
\* the handler, the path it returned is the _fixed file of the image, that
\* file exists, the _src file is gone, and the image has no other temporary
\* file.
C14_OneFilePerNormalizedImage ==
    \A r \in Requests : \A i \in {"source", "target"} :
        LET p == NormalizedPath(r, i)
        IN  p # NoPath /\ ~CleanedByHandler(r, Path(unique_id[r], i, "fixed")) =>
                /\ p = Path(unique_id[r], i, "fixed")
                /\ p \in fs
                /\ Path(unique_id[r], i, "src") \notin fs
                /\ LiveFiles(r, i) = {p}

\* C14 happens: both images are normalised, the POST is about to be issued,
\* and the two _fixed files are the only temporary files.
C14_Witness ==
    \E r \in Requests :
        /\ pc[r] = "post"
        /\ fs = {Path(unique_id[r], "source", "fixed"),
                 Path(unique_id[r], "target", "fixed")}
        /\ source_image_path[r] \in fs /\ target_image_path[r] \in fs

\* The entries of trace[r] that name a file.
FileOps(r) ==
    {j \in 1..Len(trace[r]) :
        trace[r][j].op \in {"create", "convert", "remove", "open", "close"}}

\* C15: with requests running concurrently, every file a request converts,
\* opens, uploads, closes or removes is one it created itself; no file is
\* created by two requests; the files of the two images of a request have
\* different names; and every temporary file or open handle belongs to the
\* request that created it.
C15_FilesOwnedByTheirRequest ==
    /\ \A r \in Requests :
          /\ \A j \in FileOps(r) :
                /\ trace[r][j].path.uid = unique_id[r]
                /\ trace[r][j].path \in Created(r)
          /\ files[r] \subseteq Created(r)
          /\ Cardinality(Created(r)) = Cardinality(Ops(r, "create"))
          /\ BothNormalized(r) => source_image_path[r] # target_image_path[r]
    /\ \A r1, r2 \in Requests :
          r1 # r2 => Created(r1) \cap Created(r2) = {}
    /\ \A f \in fs \cup handles : \E r \in Requests : f \in Created(r)

\* C15 happens: one request has succeeded and removed its files while
\* another, started in between, is about to POST its own two files, which
\* are the only ones left.
C15_Witness ==
    \E r1, r2 \in Requests :
        /\ r1 # r2
        /\ Returned(r1) /\ response[r1].shape = "success"
        /\ Cardinality(Ops(r1, "remove")) = 4
        /\ pc[r2] = "post"
        /\ fs = {source_image_path[r2], target_image_path[r2]}
        /\ handles = fs

\* The exception in flight left the verification stage (the POST or the
\* parsing of its answer), through the finally block.
VerificationRaised(r) == exc[r] \in {"ConnectionError", "JSONDecodeError"}

\* C16: cleanup is idempotent.  When an exception leaves the verification
\* stage the cleanup runs twice, in the finally block and in the outer
\* handler; no file is removed twice (the second pass skips what the first
\* removed) and no error comes of it; and the response is the one the
\* exception or the return statement decided, whether or not a deletion
\* failed or was redundant.
C16_CleanupIdempotent ==
    \A r \in Requests :
        /\ \A i, j \in Ops(r, "remove") :
              i # j => trace[r][i].path # trace[r][j].path
        /\ \A j \in Ops(r, "remove") : trace[r][j].path # NoPath
        /\ Returned(r) /\ VerificationRaised(r) =>
              response[r] = Error(400, ProcessingError, StrOfException(exc[r]))
        /\ Returned(r) /\ exc[r] # "" => response[r].status = 400
        /\ Returned(r) /\ exc[r] = "" /\ ret[r] # NoResponse =>
              response[r] = ret[r]

\* C16 happens: the POST raised, the finally block removed both files, and
\* the outer handler ran after it, removed nothing and answered 400.
C16_Witness ==
    \E r \in Requests :
        /\ Returned(r)
        /\ exc[r] = "ConnectionError"
        /\ CleanedByHandler(r, source_image_path[r])
        /\ CleanedByHandler(r, target_image_path[r])
        /\ Cardinality(Ops(r, "remove")) = 4
        /\ fs = {}
        /\ response[r].status = 400

====
